---- MODULE Spec2Model ----
(***************************************************************************)
(* A model of the regtest payment workflow of rust-capstone-project: the    *)
(* library entry point run_rpc_scenario (src/rust/src/lib.rs) and the       *)
(* binary's main (src/rust/src/main.rs).  Both programs drive the same      *)
(* sequence of Bitcoin Core RPC calls; the variable prog says which one     *)
(* runs.  One action is one RPC call together with the local code that      *)
(* follows it up to the next call.  The node is the environment: in mode    *)
(* "free" every reply is any value of the bounded reply sets, in mode       *)
(* "ledger" the node mines a fixed reward per block and reports the         *)
(* submitted payment consistently.                                          *)
(*                                                                         *)
(* Amounts are integers, COIN units to the bitcoin; Amount::to_btc is the   *)
(* exact quotient by COIN, so a comparison of to_btc() values is the        *)
(* comparison of the integers and a sum of to_btc() values is the sum of    *)
(* the integers (floating-point rounding is not modelled).                  *)
(***************************************************************************)
EXTENDS Integers, Sequences, FiniteSets, TLC

\* ------------------------------------------------------------------ bounds
COIN == 10          \* model units per bitcoin
MaxMine == 2        \* cap on the single-block mining calls of the funding loop
MaxVout == 2        \* longest decoded output list
MaxDetails == 2     \* longest list of wallet detail entries

\* --------------------------------------------------------- program constants
MaturationBlocks == 101
ThresholdBtc == 20
SendBtc == 20

Threshold == ThresholdBtc * COIN
SendAmount == SendBtc * COIN

\* -------------------------------------------------------------------- text
\* A text is a sequence of tokens; the parts a substring search can tell
\* apart are spelled character by character.
CodeMinus4 == <<"c", "o", "d", "e", ":", " ", "-", "4">>

DigitChar(d) ==
  CASE d = 0 -> "0" [] d = 1 -> "1" [] d = 2 -> "2" [] d = 3 -> "3" [] d = 4 -> "4"
    [] d = 5 -> "5" [] d = 6 -> "6" [] d = 7 -> "7" [] d = 8 -> "8" [] OTHER -> "9"

RECURSIVE NatStr(_)
NatStr(n) == IF n < 10 THEN <<DigitChar(n)>> ELSE NatStr(n \div 10) \o <<DigitChar(n % 10)>>

IntStr(n) == IF n < 0 THEN <<"-">> \o NatStr(-n) ELSE NatStr(n)

\* str::contains: pat occurs in s as a contiguous run
Contains(s, pat) ==
  \E i \in 1..(Len(s) - Len(pat) + 1) : SubSeq(s, i, i + Len(pat) - 1) = pat

\* ------------------------------------------------------------------ errors
NoError == [variant |-> "none", code |-> 0, message |-> <<>>]
JsonRpc(code, message) == [variant |-> "JsonRpc", code |-> code, message |-> message]
Transport == [variant |-> "Transport", code |-> 0, message |-> <<"connection refused">>]
ReturnedError(text) == [variant |-> "ReturnedError", code |-> 0, message |-> text]
IoError(kind, text) == [variant |-> kind, code |-> 0, message |-> text]
Panic(text) == [variant |-> "panic", code |-> 0, message |-> <<text>>]

\* Display of an error (Error::to_string)
to_string(e) ==
  CASE e.variant = "JsonRpc" ->
         <<"JSON-RPC error: RPC error response: RpcError { ">>
         \o <<"c", "o", "d", "e", ":", " ">> \o IntStr(e.code)
         \o <<",", " message: ">> \o e.message \o <<", data: None }">>
    [] e.variant = "Transport" -> <<"JSON-RPC error: transport error: ">> \o e.message
    [] e.variant = "ReturnedError" ->
         <<"the daemon returned an error string: ">> \o e.message
    [] OTHER -> e.message

MsgPlain == <<"wallet error">>
MsgMention == <<"see ">> \o CodeMinus4

\* the errors a node call can come back with
NodeErrors ==
  { JsonRpc(-4, MsgPlain), JsonRpc(-18, MsgPlain), JsonRpc(-40, MsgPlain),
    JsonRpc(-18, MsgMention), Transport }

\* ------------------------------------------------------------------- state
VARIABLES
  prog,                   \* "lib" (run_rpc_scenario) or "main"
  pc,                     \* the next RPC call of the workflow
  ret,                    \* how the run ended: running, ok, err (returned), panic
  gw,                     \* the current get_wallet invocation and its calls
  node,                   \* the node: mode, spendable balance, reward, payment
  miner_input_address,
  trader_output_address,
  miner_balance,          \* the last balance read by the funding step
  reads,                  \* balance reads of the funding step, after the batch
  batches,                \* generate_to_address(101, ..) calls issued
  mined,                  \* generate_to_address(1, ..) calls issued by the loop
  sends,                  \* send_to_address calls issued
  tx_id,
  mempool_entry,          \* the pool entry of tx_id, an Option: <<>> or <<entry>>
  lookups,                \* get_mempool_entry calls issued
  confirms,               \* confirming generate_to_address(1, ..) calls issued
  confirmation_block,     \* the stored result of the confirming generate call
  miner_input_amount,
  miner_tx_fee,           \* miner_tx.fee, an Option: <<>> or <<fee>>
  trader_output_amount,
  vout,                   \* the decoded output list, an Option: <<>> or <<outs>>
  miner_change_address,
  miner_change_amount,
  fee,
  confirmation_block_hash,
  block_height,
  output,                 \* the OutputFile value, once built
  file,                   \* ../out.txt: the lines it holds
  created                 \* File::create calls on ../out.txt

runVars == <<prog, pc, ret>>
fundVars == <<miner_input_address, miner_balance, reads, batches, mined>>
payVars == <<trader_output_address, sends, tx_id, mempool_entry, lookups, confirms,
             confirmation_block>>
resolveVars == <<miner_input_amount, miner_tx_fee, trader_output_amount, vout,
                 miner_change_address, miner_change_amount, fee,
                 confirmation_block_hash, block_height>>
fileVars == <<output, file, created>>
vars == <<runVars, gw, node, fundVars, payVars, resolveVars, fileVars>>

Running == [kind |-> "running", error |-> NoError]
NoAddr == "none"
NoTx == "none"

\* ------------------------------------------------------------- get_wallet
GwIdle ==
  [name |-> "none", status |-> "idle", listed |-> FALSE, lists |-> 0, loads |-> 0,
   unloads |-> 0, creates |-> 0, firstLoad |-> <<>>, unloaded |-> <<>>,
   lastLoad |-> <<>>, reply |-> NoError, error |-> NoError]

\* the replies of list_wallets
WalletLists == { <<>>, <<"Miner">>, <<"Trader">>, <<"Miner", "Trader">> }

\* wallets.iter().any(|wallet| wallet == wallet_name)
wallet_exists(wallets, wallet_name) ==
  \E i \in 1..Len(wallets) : wallets[i] = wallet_name

\* e.to_string().contains("code: -4")
is_conflict_mut(e) == FALSE
is_conflict(e) == Contains(to_string(e), CodeMinus4)

\* if wallet_exists { load_wallet .. } else { create_wallet .. }
first_call_mut(exists) == IF exists THEN "gw_create" ELSE "gw_load"
first_call(exists) == IF exists THEN "gw_load" ELSE "gw_create"

\* where the workflow goes on after get_wallet(name) returned Ok
AfterGetWallet(p, name) ==
  IF p = "lib"
    THEN (IF name = "Miner" THEN "get_wallet_trader" ELSE "miner_addr")
    ELSE (IF name = "Miner" THEN "miner_addr" ELSE "trader_addr")

Goto(p) == pc' = p /\ ret' = ret
Return(kind, e) == pc' = "done" /\ ret' = [kind |-> kind, error |-> e]

\* a wallet call's outcome: NoError, or one of the errors it can come back with
Outcomes == {NoError} \cup NodeErrors
\* the outcomes of the calls whose error text the program never inspects
RpcOutcomes == {NoError, JsonRpc(-1, MsgPlain), Transport}

\* rpc.list_wallets() at the head of get_wallet
GwListWallets ==
  /\ pc \in {"get_wallet_miner", "get_wallet_trader"}
  /\ \E e \in Outcomes, wallets \in WalletLists :
       LET name == IF pc = "get_wallet_miner" THEN "Miner" ELSE "Trader"
           g == [GwIdle EXCEPT !.name = name, !.status = "running", !.lists = 1,
                               !.reply = e]
       IN  IF e # NoError
             THEN IF prog = "lib"
                    THEN /\ gw' = [g EXCEPT !.status = "err", !.error = e]
                         /\ Return("err", e)
                    ELSE /\ gw' = [g EXCEPT !.status = "panic",
                                             !.error = Panic("Can't list wallets")]
                         /\ Return("panic", Panic("Can't list wallets"))
             ELSE /\ gw' = [g EXCEPT !.listed = wallet_exists(wallets, name)]
                  /\ Goto(IF prog = "main" THEN "gw_list2"
                          ELSE first_call(wallet_exists(wallets, name)))
  /\ prog' = prog
  /\ UNCHANGED <<node, fundVars, payVars, resolveVars, fileVars>>

\* main.rs only: the second rpc.list_wallets().unwrap(), printed for debugging
GwListWalletsAgain ==
  /\ pc = "gw_list2"
  /\ \E e \in Outcomes :
       IF e # NoError
         THEN /\ gw' = [gw EXCEPT !.lists = @ + 1, !.reply = e, !.status = "panic",
                                  !.error = Panic("unwrap on Err")]
              /\ Return("panic", Panic("unwrap on Err"))
         ELSE /\ gw' = [gw EXCEPT !.lists = @ + 1]
              /\ Goto(first_call(gw.listed))
  /\ prog' = prog
  /\ UNCHANGED <<node, fundVars, payVars, resolveVars, fileVars>>

\* the first rpc.load_wallet(wallet_name), taken when the name is listed
GwLoadWallet ==
  /\ pc = "gw_load"
  /\ \E e \in Outcomes :
       LET g == [gw EXCEPT !.loads = @ + 1, !.firstLoad = <<e>>, !.lastLoad = <<e>>,
                           !.reply = e]
       IN  IF e = NoError
             THEN /\ gw' = [g EXCEPT !.status = "ok"]
                  /\ Goto(AfterGetWallet(prog, gw.name))
             ELSE IF is_conflict(e)
               THEN /\ gw' = g
                    /\ Goto("gw_unload")
             ELSE IF prog = "lib"
               THEN /\ gw' = [g EXCEPT !.status = "err", !.error = e]
                    /\ Return("err", e)
               ELSE /\ gw' = [g EXCEPT !.status = "err",
                                        !.error = IoError("Io:NotFound", to_string(e))]
                    /\ Return("panic", Panic("unwrap on Err"))
  /\ prog' = prog
  /\ UNCHANGED <<node, fundVars, payVars, resolveVars, fileVars>>

\* rpc.unload_wallet(Some(wallet_name)) after a conflict on the first load
GwUnloadWallet ==
  /\ pc = "gw_unload"
  /\ \E e \in Outcomes :
       LET g == [gw EXCEPT !.unloads = @ + 1, !.unloaded = <<e>>, !.reply = e]
       IN  IF e = NoError
             THEN /\ gw' = g
                  /\ Goto("gw_reload")
             ELSE IF prog = "lib"
               THEN /\ gw' = [g EXCEPT !.status = "err", !.error = e]
                    /\ Return("err", e)
               ELSE /\ gw' = [g EXCEPT !.status = "panic",
                                        !.error = Panic("Failed to unload wallet")]
                    /\ Return("panic", Panic("Failed to unload wallet"))
  /\ prog' = prog
  /\ UNCHANGED <<node, fundVars, payVars, resolveVars, fileVars>>

\* the second rpc.load_wallet(wallet_name), after the unload
GwReloadWallet ==
  /\ pc = "gw_reload"
  /\ \E e \in Outcomes :
       LET g == [gw EXCEPT !.loads = @ + 1, !.lastLoad = <<e>>, !.reply = e]
       IN  IF e = NoError
             THEN /\ gw' = [g EXCEPT !.status = "ok"]
                  /\ Goto(AfterGetWallet(prog, gw.name))
             ELSE IF prog = "lib"
               THEN /\ gw' = [g EXCEPT !.status = "err", !.error = e]
                    /\ Return("err", e)
               ELSE /\ gw' = [g EXCEPT !.status = "panic",
                                        !.error = Panic("Failed to load wallet")]
                    /\ Return("panic", Panic("Failed to load wallet"))
  /\ prog' = prog
  /\ UNCHANGED <<node, fundVars, payVars, resolveVars, fileVars>>

\* lib.rs: Error::ReturnedError("Wallet already exists but was not listed")
ExistsNotListed == ReturnedError(<<"Wallet already exists but was not listed">>)
\* main.rs: io::Error::new(ErrorKind::AlreadyExists, ..) and (ErrorKind::Other, ..)
AlreadyExists == IoError("Io:AlreadyExists", <<"wallet with this name already exists">>)
UnableToCreate == IoError("Io:Other", <<"Unable to create wallet. Try again later">>)

\* rpc.create_wallet(wallet_name, ..), taken when the name is not listed
GwCreateWallet ==
  /\ pc = "gw_create"
  /\ \E e \in Outcomes :
       LET g == [gw EXCEPT !.creates = @ + 1, !.reply = e]
       IN  IF e = NoError
             THEN /\ gw' = [g EXCEPT !.status = "ok"]
                  /\ Goto(AfterGetWallet(prog, gw.name))
             ELSE IF prog = "lib"
               THEN LET mapped == IF is_conflict(e) THEN ExistsNotListed ELSE e
                    IN  /\ gw' = [g EXCEPT !.status = "err", !.error = mapped]
                        /\ Return("err", mapped)
               ELSE LET mapped == IF is_conflict(e) THEN AlreadyExists ELSE UnableToCreate
                    IN  /\ gw' = [g EXCEPT !.status = "err", !.error = mapped]
                        /\ Return("panic", Panic("unwrap on Err"))
  /\ prog' = prog
  /\ UNCHANGED <<node, fundVars, payVars, resolveVars, fileVars>>

\* ---------------------------------------------------------------- the node
\* A free node answers a call with any value of the call's bounded reply set.
FreeNode ==
  [mode |-> "free", balance |-> 0, reward |-> 0, txfee |-> 0, changeFirst |-> FALSE,
   height |-> 0, paid |-> 0, payee |-> NoAddr, change |-> 0]

\* A ledger node is the private test network the workflow is written for: every
\* generate call succeeds and each block adds a fixed reward to the spendable
\* balance (the 101-block batch makes the earliest reward spendable); a payment
\* needs the amount and the fee; the sender wallet reports the payment as a
\* negative amount and the fee as a negative cost, the recipient wallet reports
\* the amount received, and the decoded transaction pays the recipient and
\* returns the rest, the change, to the sender.
Rewards == { 7 * COIN, 20 * COIN, 50 * COIN }
NodeFees == { 1, 2 }
LedgerNodes ==
  { [FreeNode EXCEPT !.mode = "ledger", !.reward = r, !.txfee = f, !.changeFirst = c] :
      r \in Rewards, f \in NodeFees, c \in BOOLEAN }

Ledger == node.mode = "ledger"

InsufficientFunds == JsonRpc(-6, <<"Insufficient funds">>)

LedgerAfterGenerate(count) ==
  [node EXCEPT !.height = @ + count, !.balance = @ + node.reward]
LedgerSendOutcomes(amount) ==
  IF node.balance < amount + node.txfee THEN {InsufficientFunds} ELSE {NoError}
LedgerAfterSend(addr, amount) ==
  [node EXCEPT !.paid = amount, !.payee = addr,
               !.change = node.balance - amount - node.txfee,
               !.balance = node.balance - amount - node.txfee]
LedgerMinerTx == { [details |-> << -node.paid >>, fee |-> << -node.txfee >>] }
LedgerTraderTx == { [details |-> << node.paid >>] }

\* a decoded output: its value and its optional resolved address
Out(value, address) == [value |-> value, address |-> address]

LedgerVout ==
  LET pay == Out(node.paid, <<node.payee>>)
      chg == Out(node.change, <<"change_addr">>)
  IN  { IF node.change = 0 THEN <<pay>>
        ELSE IF node.changeFirst THEN <<chg, pay>> ELSE <<pay, chg>> }

\* generate_to_address: its outcomes, its effect on the node, its block hashes
GenerateOutcomes == IF Ledger THEN {NoError} ELSE RpcOutcomes
NodeAfterGenerate(count) == IF Ledger THEN LedgerAfterGenerate(count) ELSE node
HashLists == { <<>>, <<"hash1">>, <<"hash2", "hash1">> }
GenerateReplies == IF Ledger THEN { <<"hash1">> } ELSE HashLists

\* get_wallet_info().balance
Balances == { Threshold - 1, Threshold, Threshold + COIN }
BalanceReplies == IF Ledger THEN { node.balance } ELSE Balances

\* get_new_address
MinerAddresses == { "miner_addr", "mainnet_addr" }
TraderAddresses == { "trader_addr", "mainnet_addr" }
\* the network an address was issued for
Net(a) == IF a = "mainnet_addr" THEN "bitcoin" ELSE "regtest"

\* send_to_address
SendOutcomes(amount) == IF Ledger THEN LedgerSendOutcomes(amount) ELSE RpcOutcomes
NodeAfterSend(addr, amount) == IF Ledger THEN LedgerAfterSend(addr, amount) ELSE node

\* sequences over S of length at most n
SeqsUpTo(S, n) == UNION { [1..k -> S] : k \in 0..n }

\* get_transaction: the wallet's detail amounts and its fee field
DetailAmounts == { -SendAmount, SendAmount }
DetailLists == SeqsUpTo(DetailAmounts, MaxDetails)
FeeFields == { <<>>, <<-1>>, <<1>> }
MinerTxReplies == IF Ledger THEN LedgerMinerTx ELSE [details : DetailLists, fee : FeeFields]
TraderTxReplies == IF Ledger THEN LedgerTraderTx ELSE [details : DetailLists]

\* decode_raw_transaction: the ordered output list
Outputs ==
  { Out(5 * COIN, <<"trader_addr">>), Out(3 * COIN + 2, <<"change_addr">>),
    Out(2, <<>>), Out(4, <<"mainnet_addr">>) }
VoutLists == SeqsUpTo(Outputs, MaxVout)
VoutReplies == IF Ledger THEN LedgerVout ELSE VoutLists

\* get_block_info(..).height
Heights == { 102, 103 }
HeightReplies == IF Ledger THEN { node.height } ELSE Heights

\* -------------------------------------------------------------------- Init
PriorReport == << <<"stale">> >>

InitWith(nodes) ==
  /\ prog \in {"lib", "main"}
  /\ pc = (IF prog = "main" THEN "list_wallets" ELSE "blockchain_info")
  /\ ret = Running
  /\ gw = GwIdle
  /\ node \in nodes
  /\ miner_input_address = NoAddr
  /\ trader_output_address = NoAddr
  /\ miner_balance = 0
  /\ reads = 0
  /\ batches = 0
  /\ mined = 0
  /\ sends = 0
  /\ tx_id = NoTx
  /\ mempool_entry = <<>>
  /\ lookups = 0
  /\ confirms = 0
  /\ confirmation_block = [error |-> NoError, hashes |-> <<>>]
  /\ miner_input_amount = 0
  /\ miner_tx_fee = <<>>
  /\ trader_output_amount = 0
  /\ vout = <<>>
  /\ miner_change_address = NoAddr
  /\ miner_change_amount = 0
  /\ fee = 0
  /\ confirmation_block_hash = "none"
  /\ block_height = 0
  /\ output = <<>>
  /\ file = PriorReport
  /\ created = 0

Init == InitWith({FreeNode})
InitLedger == InitWith(LedgerNodes)

\* ------------------------------------------------------- provisioning, funds
\* main.rs only: miner_rpc.list_wallets().unwrap(), printed for debugging
ListWallets ==
  /\ pc = "list_wallets"
  /\ \E e \in RpcOutcomes :
       IF e # NoError THEN Return("panic", Panic("unwrap on Err"))
       ELSE Goto("blockchain_info")
  /\ prog' = prog
  /\ UNCHANGED <<gw, node, fundVars, payVars, resolveVars, fileVars>>

\* miner_rpc.get_blockchain_info()?
GetBlockchainInfo ==
  /\ pc = "blockchain_info"
  /\ \E e \in RpcOutcomes :
       IF e # NoError THEN Return("err", e) ELSE Goto("get_wallet_miner")
  /\ prog' = prog
  /\ UNCHANGED <<gw, node, fundVars, payVars, resolveVars, fileVars>>

\* miner_rpc.get_new_address(..)?.require_network(Regtest).expect(..)
MinerNewAddress ==
  /\ pc = "miner_addr"
  /\ \E e \in RpcOutcomes, a \in MinerAddresses :
       IF e # NoError
         THEN Return("err", e) /\ UNCHANGED miner_input_address
       ELSE IF Net(a) # "regtest"
         THEN Return("panic", Panic("new miner address")) /\ UNCHANGED miner_input_address
       ELSE /\ miner_input_address' = a
            /\ Goto(IF prog = "lib" THEN "gen101" ELSE "pre_balance")
  /\ gw' = GwIdle
  /\ prog' = prog
  /\ UNCHANGED <<node, miner_balance, reads, batches, mined, payVars, resolveVars,
                 fileVars>>

\* main.rs only: get_wallet_info().expect("wallet info"), printed
PrintBalance ==
  /\ pc = "pre_balance"
  /\ \E e \in RpcOutcomes :
       IF e # NoError THEN Return("panic", Panic("wallet info")) ELSE Goto("gen101")
  /\ prog' = prog
  /\ UNCHANGED <<gw, node, fundVars, payVars, resolveVars, fileVars>>

\* miner_rpc.generate_to_address(101, &miner_input_address)?
GenerateBatch ==
  /\ pc = "gen101"
  /\ \E e \in GenerateOutcomes :
       IF e # NoError THEN Return("err", e) /\ UNCHANGED node
       ELSE Goto("balance") /\ node' = NodeAfterGenerate(MaturationBlocks)
  /\ batches' = batches + 1
  /\ prog' = prog
  /\ UNCHANGED <<gw, miner_input_address, miner_balance, reads, mined, payVars,
                 resolveVars, fileVars>>

\* while miner_balance.to_btc() < 20.0
needs_more_off_by_one(balance) == balance < Threshold - 1
needs_more_always(balance) == TRUE
needs_more_inverted(balance) == balance >= Threshold
needs_more(balance) == balance < Threshold

\* miner_balance = miner_rpc.get_wallet_info().expect("Miner balance").balance,
\* then the loop's test
GetWalletInfo ==
  /\ pc = "balance"
  /\ \E e \in RpcOutcomes, b \in BalanceReplies :
       IF e # NoError
         THEN Return("panic", Panic("Miner balance")) /\ UNCHANGED miner_balance
         ELSE /\ miner_balance' = b
              /\ Goto(IF needs_more(b) THEN "gen1"
                      ELSE IF prog = "lib" THEN "trader_addr" ELSE "get_wallet_trader")
  /\ reads' = reads + 1
  /\ prog' = prog
  /\ UNCHANGED <<gw, node, miner_input_address, batches, mined, payVars,
                 resolveVars, fileVars>>

\* the loop body: miner_rpc.generate_to_address(1, &miner_input_address)?
GenerateOne ==
  /\ pc = "gen1"
  /\ mined < MaxMine
  /\ \E e \in GenerateOutcomes :
       IF e # NoError THEN Return("err", e) /\ UNCHANGED node
       ELSE Goto("balance") /\ node' = NodeAfterGenerate(1)
  /\ mined' = mined + 1
  /\ prog' = prog
  /\ UNCHANGED <<gw, miner_input_address, miner_balance, reads, batches, payVars,
                 resolveVars, fileVars>>

\* ------------------------------------------------------------------ transfer
\* trader_rpc.get_new_address(..)?.require_network(Regtest)
TraderNewAddress ==
  /\ pc = "trader_addr"
  /\ \E e \in RpcOutcomes, a \in TraderAddresses :
       IF e # NoError
         THEN Return("err", e) /\ UNCHANGED trader_output_address
       ELSE IF Net(a) # "regtest"
         THEN /\ IF prog = "lib"
                   THEN Return("err", ReturnedError(<<"address network mismatch">>))
                   ELSE Return("panic", Panic("Failed to get new address for trader"))
              /\ UNCHANGED trader_output_address
       ELSE /\ trader_output_address' = a
            /\ Goto("send")
  /\ gw' = GwIdle
  /\ prog' = prog
  /\ UNCHANGED <<node, fundVars, sends, tx_id, mempool_entry, lookups, confirms,
                 confirmation_block, resolveVars, fileVars>>

\* miner_rpc.send_to_address(&trader_output_address, Amount::from_int_btc(20), ..)
SendToAddress ==
  /\ pc = "send"
  /\ \E e \in SendOutcomes(SendAmount) :
       IF e # NoError
         THEN /\ IF prog = "lib" THEN Return("err", e)
                 ELSE Return("panic", Panic("Failed to send BTC to trader"))
              /\ UNCHANGED <<tx_id, node>>
         ELSE /\ tx_id' = "txid1"
              /\ node' = NodeAfterSend(trader_output_address, SendAmount)
              /\ Goto("mempool")
  /\ sends' = sends + 1
  /\ prog' = prog
  /\ UNCHANGED <<gw, fundVars, trader_output_address, mempool_entry, lookups,
                 confirms, confirmation_block, resolveVars, fileVars>>

\* lib.rs: .map_err(|e| ReturnedError(e.to_string()))?
\* main.rs: .expect("mempool entry miner")
on_mempool_error_mut(e) == Goto("send")
on_mempool_error_skip(e) == Goto("confirm")
on_mempool_error(e) ==
  IF prog = "lib" THEN Return("err", ReturnedError(to_string(e)))
  ELSE Return("panic", Panic("mempool entry miner"))

\* miner_rpc.get_mempool_entry(&tx_id)
GetMempoolEntry ==
  /\ pc = "mempool"
  /\ \E e \in RpcOutcomes :
       IF e # NoError
         THEN on_mempool_error(e) /\ UNCHANGED mempool_entry
         ELSE Goto("confirm") /\ mempool_entry' = << "entry" >>
  /\ lookups' = lookups + 1
  /\ prog' = prog
  /\ UNCHANGED <<gw, node, fundVars, trader_output_address, sends, tx_id, confirms,
                 confirmation_block, resolveVars, fileVars>>

\* let confirmation_block = miner_rpc.generate_to_address(1, ..): lib.rs keeps
\* the Result and goes on; main.rs returns its error at once
ConfirmBlock ==
  /\ pc = "confirm"
  /\ \E e \in GenerateOutcomes, hashes \in GenerateReplies :
       IF e # NoError
         THEN /\ confirmation_block' = [error |-> e, hashes |-> <<>>]
              /\ UNCHANGED node
              /\ IF prog = "lib" THEN Goto("miner_tx") ELSE Return("err", e)
         ELSE /\ confirmation_block' = [error |-> NoError, hashes |-> hashes]
              /\ node' = NodeAfterGenerate(1)
              /\ Goto("miner_tx")
  /\ confirms' = confirms + 1
  /\ prog' = prog
  /\ UNCHANGED <<gw, fundVars, trader_output_address, sends, tx_id, mempool_entry,
                 lookups, resolveVars, fileVars>>

\* ---------------------------------------------------------------- resolution
RECURSIVE Sum(_)
Sum(s) == IF s = <<>> THEN 0 ELSE Head(s) + Sum(Tail(s))
Abs(x) == IF x < 0 THEN -x ELSE x

\* f64::abs(details.iter().map(|detail| detail.amount.to_btc()).sum())
input_amount(details) == Abs(Sum(details))
\* details.iter().map(|detail| detail.amount.to_btc()).sum()
output_amount(details) == Sum(details)

\* miner_rpc.get_transaction(&tx_id, None)?
MinerGetTransaction ==
  /\ pc = "miner_tx"
  /\ \E e \in RpcOutcomes, r \in MinerTxReplies :
       IF e # NoError
         THEN Return("err", e) /\ UNCHANGED <<miner_input_amount, miner_tx_fee>>
         ELSE /\ miner_input_amount' = input_amount(r.details)
              /\ miner_tx_fee' = r.fee
              /\ Goto("trader_tx")
  /\ prog' = prog
  /\ UNCHANGED <<gw, node, fundVars, payVars, trader_output_amount, vout,
                 miner_change_address, miner_change_amount, fee,
                 confirmation_block_hash, block_height, fileVars>>

\* trader_rpc.get_transaction(&tx_id, None)?
TraderGetTransaction ==
  /\ pc = "trader_tx"
  /\ \E e \in RpcOutcomes, r \in TraderTxReplies :
       IF e # NoError
         THEN Return("err", e) /\ UNCHANGED trader_output_amount
         ELSE /\ trader_output_amount' = output_amount(r.details)
              /\ Goto("decode")
  /\ prog' = prog
  /\ UNCHANGED <<gw, node, fundVars, payVars, miner_input_amount, miner_tx_fee, vout,
                 miner_change_address, miner_change_amount, fee,
                 confirmation_block_hash, block_height, fileVars>>

\* lib.rs: .filter(|v| v.script_pub_key.address.as_ref()
\*                       .is_some_and(|addr| addr != &trader_output_address))
RECURSIVE filter_not_recipient(_, _)
filter_not_recipient(outs, recipient) ==
  IF outs = <<>> THEN <<>>
  ELSE LET v == Head(outs)
           rest == filter_not_recipient(Tail(outs), recipient)
       IN  IF v.address # <<>> /\ v.address[1] # recipient THEN <<v>> \o rest ELSE rest

\* .next_back() / .last(): the last element, as an Option
last_of(outs) == IF outs = <<>> THEN <<>> ELSE << outs[Len(outs)] >>

\* lib.rs: the change output, an Option
miner_vout_lib(outs, recipient) == last_of(filter_not_recipient(outs, recipient))

\* main.rs: .filter(|v| v.script_pub_key.address.as_ref().unwrap() != ..) unwraps
\* the address of every output the iterator visits, and .last() visits them all
unwrap_panics(outs) == \E i \in 1..Len(outs) : outs[i].address = <<>>

\* The local code from the decoded output list to the confirming block hash:
\* the change output, its address on regtest, its amount, the fee and the first
\* hash of the confirming block, or the first failure on the way; what was
\* computed before the failure stays computed.
Resolved(kind, e, address, amount, f, hash) ==
  [kind |-> kind, error |-> e, address |-> address, amount |-> amount, fee |-> f,
   hash |-> hash]

Resolve(p, outs, recipient, feeField, confirmation) ==
  LET picked == miner_vout_lib(outs, recipient)
      address == picked[1].address[1]
      amount == picked[1].value
  IN  IF p = "main" /\ unwrap_panics(outs)
        THEN Resolved("panic", Panic("unwrap on None: script_pub_key.address"),
                      NoAddr, 0, 0, "none")
      ELSE IF picked = <<>>
        THEN (IF p = "lib"
                THEN Resolved("err", ReturnedError(<<"No miner change output found">>),
                              NoAddr, 0, 0, "none")
                ELSE Resolved("panic", Panic("No UTXOs found"), NoAddr, 0, 0, "none"))
      ELSE IF Net(address) # "regtest"
        THEN (IF p = "lib"
                THEN Resolved("err", ReturnedError(<<"address network mismatch">>),
                              NoAddr, 0, 0, "none")
                ELSE Resolved("panic", Panic("unwrap on Err"), NoAddr, 0, 0, "none"))
      ELSE IF feeField = <<>>
        THEN Resolved("panic", Panic("fee miner tx"), address, amount, 0, "none")
      ELSE IF confirmation.error # NoError
        THEN Resolved("err", confirmation.error, address, amount, feeField[1], "none")
      ELSE IF confirmation.hashes = <<>>
        THEN Resolved("panic", Panic("unwrap on None: first block hash"), address,
                      amount, feeField[1], "none")
      ELSE Resolved("ok", NoError, address, amount, feeField[1], confirmation.hashes[1])

\* miner_rpc.decode_raw_transaction(miner_tx.hex.., Some(true))? and the local
\* code up to the get_block_info call
DecodeRawTransaction ==
  /\ pc = "decode"
  /\ \E e \in RpcOutcomes, outs \in VoutReplies :
       IF e # NoError
         THEN /\ Return("err", e)
              /\ UNCHANGED <<vout, miner_change_address, miner_change_amount, fee,
                             confirmation_block_hash>>
         ELSE LET r == Resolve(prog, outs, trader_output_address, miner_tx_fee,
                               confirmation_block)
              IN  /\ vout' = <<outs>>
                  /\ miner_change_address' = r.address
                  /\ miner_change_amount' = r.amount
                  /\ fee' = r.fee
                  /\ confirmation_block_hash' = r.hash
                  /\ IF r.kind = "ok" THEN Goto("block_info") ELSE Return(r.kind, r.error)
  /\ prog' = prog
  /\ UNCHANGED <<gw, node, fundVars, payVars, miner_input_amount, miner_tx_fee,
                 trader_output_amount, block_height, fileVars>>

\* -------------------------------------------------------------------- report
\* Display of a Txid, an Address, a BlockHash
Display(x) == <<x>>
\* u64::to_string
u64_to_string(n) == NatStr(n)
\* f64::to_string of amount.to_btc(): the whole bitcoins, and the remaining
\* units after the point when there are any
f64_to_string(v) ==
  (IF v < 0 THEN <<"-">> ELSE <<>>) \o NatStr(Abs(v) \div COIN)
  \o (IF Abs(v) % COIN = 0 THEN <<>> ELSE <<".">> \o NatStr(Abs(v) % COIN))

to_lines_swapped(o) ==
  << Display(o.txid),
     Display(o.miner_input_address),
     f64_to_string(o.miner_input_amount),
     Display(o.trader_output_address),
     f64_to_string(o.trader_output_amount),
     Display(o.miner_change_address),
     f64_to_string(o.fee),
     f64_to_string(o.miner_change_amount),
     u64_to_string(o.block_height),
     Display(o.confirmation_block_hash) >>

\* OutputFile::to_lines
to_lines(o) ==
  << Display(o.txid),
     Display(o.miner_input_address),
     f64_to_string(o.miner_input_amount),
     Display(o.trader_output_address),
     f64_to_string(o.trader_output_amount),
     Display(o.miner_change_address),
     f64_to_string(o.miner_change_amount),
     f64_to_string(o.fee),
     u64_to_string(o.block_height),
     Display(o.confirmation_block_hash) >>

\* let output = OutputFile { .. }
OutputFile(height) ==
  [txid |-> tx_id,
   miner_input_address |-> miner_input_address,
   miner_input_amount |-> miner_input_amount,
   trader_output_address |-> trader_output_address,
   trader_output_amount |-> trader_output_amount,
   miner_change_address |-> miner_change_address,
   miner_change_amount |-> miner_change_amount,
   fee |-> fee,
   block_height |-> height,
   confirmation_block_hash |-> confirmation_block_hash]

\* miner_rpc.get_block_info(&confirmation_block_hash)? and the OutputFile value
GetBlockInfo ==
  /\ pc = "block_info"
  /\ \E e \in RpcOutcomes, h \in HeightReplies :
       IF e # NoError
         THEN Return("err", e) /\ UNCHANGED <<block_height, output>>
         ELSE /\ block_height' = h
              /\ output' = << OutputFile(h) >>
              /\ Goto("write")
  /\ vout' = <<>>      \* miner_raw_tx is not read again
  /\ prog' = prog
  /\ UNCHANGED <<gw, node, fundVars, payVars, miner_input_amount, miner_tx_fee,
                 trader_output_amount, miner_change_address, miner_change_amount, fee,
                 confirmation_block_hash, file, created>>

WriteFailed == IoError("Io", <<"write failed">>)

\* File::create: the file is created, or truncated when it exists
file_create_append(prior) == prior
file_create(prior) == <<>>

\* File::create("../out.txt")? and writeln!(file, "{line}")? for each line: the
\* create fails (k = -1), or the k-th writeln is the first to fail, or none does
WriteToFile ==
  /\ pc = "write"
  /\ \E k \in -1..Len(to_lines(output[1])) :
       LET lines == to_lines(output[1])
       IN  IF k = -1
             THEN Return("err", WriteFailed) /\ UNCHANGED <<file, created>>
             ELSE /\ created' = created + 1
                  /\ file' = file_create(file) \o SubSeq(lines, 1, k)
                  /\ IF k < Len(lines) THEN Return("err", WriteFailed)
                     ELSE Return("ok", NoError)
  /\ prog' = prog
  /\ UNCHANGED <<gw, node, fundVars, payVars, resolveVars, output>>

\* ------------------------------------------------------------ specification
Next ==
  \/ ListWallets
  \/ GetBlockchainInfo
  \/ GwListWallets
  \/ GwListWalletsAgain
  \/ GwLoadWallet
  \/ GwUnloadWallet
  \/ GwReloadWallet
  \/ GwCreateWallet
  \/ MinerNewAddress
  \/ PrintBalance
  \/ GenerateBatch
  \/ GetWalletInfo
  \/ GenerateOne
  \/ TraderNewAddress
  \/ SendToAddress
  \/ GetMempoolEntry
  \/ ConfirmBlock
  \/ MinerGetTransaction
  \/ TraderGetTransaction
  \/ DecodeRawTransaction
  \/ GetBlockInfo
  \/ WriteToFile

Spec == Init /\ [][Next]_vars

\* the program is one thread that runs until it returns or panics
SpecLedger == InitLedger /\ [][Next]_vars /\ WF_vars(Next)

\* ==================================================================== claims
GwFinished == gw.status \in {"ok", "err", "panic"}

\* C1 as stated: for a wallet name the list-wallets call reports, get_wallet
\* issues no load-wallet and no create-wallet call and returns success.
C1_ListedIssuesNoCall ==
  (gw.listed /\ GwFinished) => (gw.loads = 0 /\ gw.creates = 0 /\ gw.status = "ok")

\* What get_wallet does for a wallet name the list-wallets call reports: it
\* issues no create-wallet call; it returns success only after a load-wallet call
\* succeeded; and when its first load-wallet call succeeds it returns success
\* with that one load and no unload.
C1_ListedLoadsNeverCreates ==
  gw.listed =>
    /\ gw.creates = 0
    /\ (gw.status = "ok" => gw.loads >= 1 /\ gw.lastLoad = <<NoError>>)
    /\ (gw.firstLoad = <<NoError>> =>
          gw.status = "ok" /\ gw.loads = 1 /\ gw.unloads = 0)

C1_Witness == gw.listed /\ gw.status = "ok" /\ gw.loads = 1 /\ gw.unloads = 0

\* the first load-wallet call of the invocation failed with code -4
Conflict4 ==
  /\ gw.firstLoad # <<>>
  /\ gw.firstLoad[1].variant = "JsonRpc"
  /\ gw.firstLoad[1].code = -4

\* C2 as stated: after a first load that fails with code -4, get_wallet issues
\* exactly one unload and exactly one further load, and returns success.
C2_ConflictAlwaysRecovers ==
  (Conflict4 /\ GwFinished) => (gw.unloads = 1 /\ gw.loads = 2 /\ gw.status = "ok")

\* C2 amended: after a first load that fails with code -4, get_wallet issues
\* exactly one unload; exactly one further load follows when the unload
\* succeeds and none when it fails; and get_wallet returns success exactly when
\* that further load succeeds.
C2_ConflictUnloadsOnce ==
  (Conflict4 /\ GwFinished) =>
    /\ gw.unloads = 1
    /\ gw.loads = (IF gw.unloaded = <<NoError>> THEN 2 ELSE 1)
    /\ (gw.status = "ok" <=> (gw.loads = 2 /\ gw.lastLoad = <<NoError>>))

C2_Witness == Conflict4 /\ gw.status = "ok" /\ gw.unloads = 1 /\ gw.loads = 2

\* the positions of the outputs with an address that is not the recipient's
Candidates(outs, recipient) ==
  { i \in 1..Len(outs) : outs[i].address # <<>> /\ outs[i].address[1] # recipient }
Max(S) == CHOOSE x \in S : \A y \in S : y <= x

\* the decoded list has a last non-recipient output, on the node's network
HasChange ==
  /\ vout # <<>>
  /\ Candidates(vout[1], trader_output_address) # {}
  /\ Net(vout[1][Max(Candidates(vout[1], trader_output_address))].address[1]) = "regtest"

\* C3: once the transaction is decoded, the change address and amount are those
\* of the last output whose address is present and is not the recipient's;
\* outputs without an address are skipped and make no failure.
C3_ChangeIsLastNonRecipient ==
  HasChange =>
    LET v == vout[1][Max(Candidates(vout[1], trader_output_address))]
    IN  /\ miner_change_address = v.address[1]
        /\ miner_change_amount = v.value

\* C3 restricted to lib.rs, where it holds
C3_InLib == (prog = "lib") => C3_ChangeIsLastNonRecipient

\* every decoded output pays the recipient
AllToRecipient ==
  /\ vout # <<>>
  /\ \A i \in 1..Len(vout[1]) : vout[1][i].address = <<trader_output_address>>

\* C4: when every decoded output pays the recipient, the run ends with the
\* returned error "No miner change output found", no change address or amount,
\* and the report untouched.
C4_NoChangeIsReturnedError ==
  AllToRecipient =>
    /\ ret = [kind |-> "err", error |-> ReturnedError(<<"No miner change output found">>)]
    /\ miner_change_address = NoAddr
    /\ miner_change_amount = 0
    /\ created = 0
    /\ file = PriorReport

\* C4 restricted to lib.rs, where it holds
C4_InLib == (prog = "lib") => C4_NoChangeIsReturnedError

\* C5: in every resolved summary the sender input amount is the sum of the
\* recipient output amount, the change amount and the fee.
C5_InputIsOutputsPlusFee ==
  output # <<>> =>
    output[1].miner_input_amount =
      output[1].trader_output_amount + output[1].miner_change_amount + output[1].fee

\* the funding step is over: the batch was mined and the loop was left
Funded == batches > 0 /\ pc \notin {"gen101", "balance", "gen1", "done"}

\* C6: the funding step is not left, and the payment is not submitted, unless
\* the last balance read was at least the threshold.
C6_FundedBeforeSend == (Funded \/ sends > 0) => miner_balance >= Threshold

C6_Witness == sends > 0 /\ mined > 0 /\ miner_balance >= Threshold

InLoop == pc \in {"balance", "gen1"}

\* C7: with a node whose generate calls succeed and add a fixed positive reward
\* per block, the funding loop is always left, and the one-block mining calls
\* times the reward never exceed the threshold.
C7_LoopExitsWithinBound ==
  /\ InLoop ~> ~InLoop
  /\ [](mined * node.reward <= Threshold)

C7_Witness == Ledger /\ mined = 2 /\ Funded

\* C8: a run that reports has a recipient output amount of exactly 20, a fee
\* that is not negative, and a sender input amount of at least 20 plus the fee.
C8_EndToEndAmounts ==
  ret.kind = "ok" =>
    /\ output[1].trader_output_amount = SendAmount
    /\ output[1].fee >= 0
    /\ output[1].miner_input_amount >= SendAmount + output[1].fee

\* the ten lines of the report, from the values the workflow resolved
ExpectedLines ==
  << Display(tx_id),
     Display(miner_input_address),
     f64_to_string(miner_input_amount),
     Display(trader_output_address),
     f64_to_string(trader_output_amount),
     Display(miner_change_address),
     f64_to_string(miner_change_amount),
     f64_to_string(fee),
     u64_to_string(block_height),
     Display(confirmation_block_hash) >>

\* C9: a written report holds exactly ten lines, the ten summary fields in the
\* fixed order txid, sender input address, sender input amount, recipient
\* address, recipient output amount, change address, change amount, fee, block
\* height, block hash; a write that fails leaves a prefix of them.
C9_TenLinesInOrder ==
  /\ ret.kind = "ok" => (Len(file) = 10 /\ file = ExpectedLines)
  /\ created > 0 => file = SubSeq(ExpectedLines, 1, Len(file))

C9_Witness == ret.kind = "ok" /\ Len(file) = 10 /\ fee < 0

\* C10: the payment is submitted at most once in a run.
C10_SendAtMostOnce == sends <= 1

C10_Witness == sends = 1 /\ tx_id # NoTx /\ ret.kind \in {"err", "panic"}

\* the error carries the numeric conflict code -4
Code4(e) == e.variant = "JsonRpc" /\ e.code = -4

\* the value get_wallet returns for the "exists but not listed" condition
IsExistsNotListed(e) == e \in {ExistsNotListed, AlreadyExists}

\* the invocation ended on a failed create-wallet call
CreateFailed == gw.creates = 1 /\ GwFinished /\ gw.reply # NoError

\* C11: for a name that is not listed, a create-wallet call that fails with code
\* -4 makes get_wallet return an error value that no load failure and no other
\* create failure is returned as, and no load or unload call is issued.
C11_ExistsNotListedIsDistinct ==
  /\ gw.creates > 0 => (~gw.listed /\ gw.loads = 0 /\ gw.unloads = 0)
  /\ CreateFailed =>
       (gw.status = "err" /\ (IsExistsNotListed(gw.error) <=> Code4(gw.reply)))
  /\ (gw.loads > 0 /\ GwFinished) => ~IsExistsNotListed(gw.error)

\* What get_wallet does: the "exists but not listed" value is returned for
\* every create failure whose text contains "code: -4", and for no other.
C11_DistinctByText ==
  /\ gw.creates > 0 => (~gw.listed /\ gw.loads = 0 /\ gw.unloads = 0)
  /\ CreateFailed =>
       (gw.status = "err" /\ (IsExistsNotListed(gw.error) <=> is_conflict(gw.reply)))
  /\ (gw.loads > 0 /\ GwFinished) => ~IsExistsNotListed(gw.error)

\* C12: once the confirming generate call has returned an error the run is over
\* with that error: no get-transaction or decode call is issued after it and no
\* report is written.
C12_FailureAborts ==
  confirmation_block.error # NoError =>
    /\ pc = "done"
    /\ ret = [kind |-> "err", error |-> confirmation_block.error]
    /\ created = 0

\* C12 restricted to main.rs, where it holds
C12_InMain == (prog = "main") => C12_FailureAborts

\* C13: the fee of every resolved summary is not negative.
C13_FeeIsMagnitude == output # <<>> => output[1].fee >= 0

\* the unload, or the load after it, failed
UnloadFailed == gw.unloaded # <<>> /\ gw.unloaded[1] # NoError
ReloadFailed == gw.loads = 2 /\ gw.lastLoad[1] # NoError

\* C14 as stated: one get_wallet invocation issues at most two load calls and at
\* most one unload call; a failed unload, and a failed load after the unload, end
\* it with no further call and are returned as that failure, an error value.
C14_RecoveryAtMostOnce ==
  /\ gw.loads <= 2
  /\ gw.unloads <= 1
  /\ UnloadFailed => (gw.loads = 1 /\ gw.status = "err" /\ gw.error = gw.unloaded[1])
  /\ ReloadFailed => (gw.status = "err" /\ gw.error = gw.lastLoad[1])

\* What holds of both programs: the calls are bounded and a failed unload or
\* reload ends the invocation at once, without success.
C14_CallsBounded ==
  /\ gw.loads <= 2
  /\ gw.unloads <= 1
  /\ UnloadFailed => (gw.loads = 1 /\ gw.status \in {"err", "panic"})
  /\ ReloadFailed => gw.status \in {"err", "panic"}

\* C14 restricted to lib.rs, where it holds
C14_InLib == (prog = "lib") => C14_RecoveryAtMostOnce

\* C15: an unload call is issued only after a first load that failed with the
\* numeric code -4, and the "exists but not listed" value is returned only for
\* a create failure with the numeric code -4.
C15_DispatchOnlyOnCode4 ==
  /\ gw.unloads > 0 => Code4(gw.firstLoad[1])
  /\ (CreateFailed /\ IsExistsNotListed(gw.error)) => Code4(gw.reply)

\* C16: a wallet call of get_wallet that fails with anything but the code -4 is
\* the invocation's last call, and get_wallet returns that same error value.
C16_OtherErrorsPropagate ==
  (gw.status # "idle" /\ gw.reply # NoError /\ ~Code4(gw.reply)) =>
    (gw.status = "err" /\ gw.error = gw.reply)

\* What lib.rs does: the same, for the errors whose text lacks "code: -4"
C16_InLibByText ==
  (prog = "lib" /\ gw.status # "idle" /\ gw.reply # NoError /\ ~is_conflict(gw.reply)) =>
    (gw.status = "err" /\ gw.error = gw.reply)

\* the sender's transaction has no fee; the confirming call returned no hash
FeeMissing == miner_tx_fee = <<>>
HashMissing == confirmation_block.error = NoError /\ confirmation_block.hashes = <<>>

\* the run ended in the local code after the decode call, past the change output
EndedAfterChange ==
  /\ pc = "done"
  /\ HasChange
  /\ ~(prog = "main" /\ unwrap_panics(vout[1]))

\* C17: a run that finds the fee missing, or the confirming block's hash list
\* empty, ends with a returned error naming the condition, and writes no report.
C17_NamedInvariantErrors ==
  (EndedAfterChange /\ (FeeMissing \/ HashMissing)) =>
    /\ ret.kind = "err"
    /\ ret.error.variant = "ReturnedError"
    /\ created = 0
    /\ file = PriorReport

\* the pool lookup of the submitted transaction failed
LookupFailed == lookups = 1 /\ mempool_entry = <<>>

\* C18: the confirming generate call is issued only after the one pool lookup
\* of the submitted transaction succeeded; a failed lookup is not repeated, no
\* block is mined after it, and the run ends without success and without a
\* report.
C18_MempoolCheckIsFatal ==
  /\ lookups <= 1
  /\ confirms <= 1
  /\ confirms > 0 => (lookups = 1 /\ mempool_entry # <<>>)
  /\ LookupFailed =>
       /\ pc = "done"
       /\ ret.kind \in {"err", "panic"}
       /\ confirms = 0
       /\ created = 0
       /\ file = PriorReport

C18_Witness == LookupFailed /\ sends = 1 /\ tx_id # NoTx /\ pc = "done"

\* C19: the maturation batch is mined once and before every balance read and
\* every one-block mining call; a one-block mining call is issued only on a
\* balance read below the threshold, and each is followed by a fresh read before
\* the next decision: the reads are one ahead of the one-block calls whenever
\* the loop decides, so a first read at or above the threshold leaves none.
C19_BatchThenCheckThenMine ==
  /\ batches <= 1
  /\ (reads > 0 \/ mined > 0) => batches = 1
  /\ pc = "balance" => reads = mined
  /\ pc = "gen1" => (reads = mined + 1 /\ miner_balance < Threshold)
  /\ Funded => (reads = mined + 1 /\ miner_balance >= Threshold)
  /\ (mined = 0 /\ reads = 1 /\ miner_balance >= Threshold) => pc # "gen1"

C19_Witness == Funded /\ mined > 0 /\ reads = mined + 1

\* C20: ../out.txt is created at most once, and only by a run that has built
\* the whole summary; a run that succeeds has created it once and it holds the
\* summary alone; until it is created the prior report is untouched.
C20_ReportWrittenOnce ==
  /\ created <= 1
  /\ ret.kind = "ok" => (created = 1 /\ file = ExpectedLines)
  /\ created > 0 => (output # <<>> /\ pc = "done")
  /\ created = 0 => file = PriorReport

C20_Witness == ret.kind = "ok" /\ created = 1 /\ file # PriorReport

====
